---- MODULE Spec2Model ----
(***************************************************************************)
(* Composite IPR (Inflow Performance Relationship), src/IPR.py.            *)
(*                                                                         *)
(* The script reads five numbers from the sidebar, evaluates calculate_q   *)
(* on 100 evenly spaced pressures and on the target pressure, and then     *)
(* recomputes the productivity index for display.  Streamlit runs the      *)
(* script again from the top whenever a widget changes.                    *)
(*                                                                         *)
(* Arithmetic: Python evaluates the formulas in binary64.  The model uses  *)
(* exact rationals <<n, d>> (d > 0, lowest terms), with 0.2 = 1/5,         *)
(* 0.8 = 4/5 and 1.8 = 9/5, so its statements are statements about the     *)
(* formulas in exact arithmetic.  A division whose divisor is zero raises  *)
(* ZeroDivisionError, as Python's / does on int and float operands.        *)
(*                                                                         *)
(* The formulas are homogeneous in the pressure unit (scaling pr, pb,      *)
(* pwf_test and p_val by one factor leaves every rate unchanged), so small *)
(* pressures stand for the psi values of the widgets.                      *)
(***************************************************************************)
EXTENDS Integers, Sequences, FiniteSets, TLC

VARIABLES pc, pr, pb, pwf_test, q_test, pwf_target, q_curve, q_target, j_disp, exc

vars == <<pc, pr, pb, pwf_test, q_test, pwf_target, q_curve, q_target, j_disp, exc>>

\* ---------------------------------------------------------------- bounds
\* Largest reservoir pressure entered in the sidebar.
MaxPr == 3
\* The bubble-point widget has no max_value: pb ranges over 0..MaxPr+PbExcess.
PbExcess == 1
\* Largest test rate entered in the sidebar.
MaxQ == 2

\* ------------------------------------------------------ program constants
\* np.linspace(0, pr, 100)
NumSamples == 100
\* min_value of the Pr and Qt widgets, and of the Pb, Pwft and Pwf* widgets
PrMin == 1
QMin == 1
PMin == 0

\* ------------------------------------------------------ exact arithmetic
Abs(n) == IF n < 0 THEN -n ELSE n

RECURSIVE GCD(_, _)
GCD(a, b) == IF b = 0 THEN a ELSE GCD(b, a % b)

\* The rational n/d in lowest terms with a positive denominator (d # 0).
Rat(n, d) ==
    LET g == GCD(Abs(n), Abs(d))
        s == IF d < 0 THEN -1 ELSE 1
    IN  <<(s * n) \div g, (s * d) \div g>>

FromInt(n) == <<n, 1>>

RAdd(a, b) ==
    LET g == GCD(a[2], b[2])
    IN  Rat(a[1] * (b[2] \div g) + b[1] * (a[2] \div g), (a[2] \div g) * b[2])

RNeg(a) == <<-a[1], a[2]>>

RSub(a, b) == RAdd(a, RNeg(b))

RMul(a, b) ==
    LET x == Rat(a[1], b[2])
        y == Rat(b[1], a[2])
    IN  <<x[1] * y[1], x[2] * y[2]>>

\* a / b for b # 0
RDiv(a, b) == RMul(a, Rat(b[2], b[1]))

RIsZero(a) == a[1] = 0

RSign(a) == IF a[1] > 0 THEN 1 ELSE IF a[1] < 0 THEN -1 ELSE 0

RLe(a, b) == RSign(RSub(a, b)) <= 0

RLt(a, b) == RSign(RSub(a, b)) < 0

\* The float literals of the formulas.
c0_2 == <<1, 5>>
c0_8 == <<4, 5>>
c1_8 == <<9, 5>>
One == <<1, 1>>

\* ------------------------------------------------------------- outcomes
\* What an evaluation of calculate_q produces: a returned number, or a raised
\* exception.  jb and qb record the branch taken at lines 21 and 32
\* ("none" when the line was not reached), div the divisor that was zero.
NoRat == <<0, 1>>

Returned(q, j, jb, qb) ==
    [kind |-> "num", val |-> q, j |-> j, jb |-> jb, qb |-> qb, div |-> "none"]

Raised(jb, qb, div) ==
    [kind |-> "ZeroDivisionError", val |-> NoRat, j |-> NoRat,
     jb |-> jb, qb |-> qb, div |-> div]

None == [kind |-> "None", val |-> NoRat, j |-> NoRat,
         jb |-> "none", qb |-> "none", div |-> "none"]

IsNum(o) == o.kind = "num"

IsRaise(o) == o.kind = "ZeroDivisionError"

\* ----------------------------------------------------- calculate_q, step 1
\* Mutant of vogel_term: the quadratic term added instead of subtracted.
vogel_term_plus(p, pb_) ==
    LET x == RDiv(p, FromInt(pb_))
    IN  RAdd(RSub(One, RMul(c0_2, x)), RMul(c0_8, RMul(x, x)))

\* Mutant of vogel_term: 0.2 typed for the 0.8 of the quadratic term.
vogel_term_coeff(p, pb_) ==
    LET x == RDiv(p, FromInt(pb_))
    IN  RSub(RSub(One, RMul(c0_2, x)), RMul(c0_2, RMul(x, x)))

\* 1 - 0.2*(p/pb) - 0.8*(p/pb)**2, for pb # 0; p a rational, pb an integer.
vogel_term(p, pb_) ==
    LET x == RDiv(p, FromInt(pb_))
    IN  RSub(RSub(One, RMul(c0_2, x)), RMul(c0_8, RMul(x, x)))

\* Mutant of test_in_linear: > for >=.
test_in_linear_strict(pwf_test_, pb_) == pwf_test_ > pb_

\* pwf_test >= pb
test_in_linear(pwf_test_, pb_) == pwf_test_ >= pb_

\* Mutant of drawdown: a zero drawdown silently replaced by 1.
drawdown_guarded(pr_, pwf_test_) ==
    IF pr_ = pwf_test_ THEN FromInt(1) ELSE FromInt(pr_ - pwf_test_)

\* The divisor of line 23.
drawdown(pr_, pwf_test_) == FromInt(pr_ - pwf_test_)

\* Mutant of composite_denominator: pb - pr for pr - pb.
composite_denominator_flipped(pr_, pb_, pwf_test_) ==
    RAdd(FromInt(pb_ - pr_),
         RMul(RDiv(FromInt(pb_), c1_8), vogel_term(FromInt(pwf_test_), pb_)))

\* The divisor of line 29, for pb # 0.
composite_denominator(pr_, pb_, pwf_test_) ==
    RAdd(FromInt(pr_ - pb_),
         RMul(RDiv(FromInt(pb_), c1_8), vogel_term(FromInt(pwf_test_), pb_)))

\* Step 1 of calculate_q: the productivity index, or the exception raised.
solve_j(pr_, pb_, q_test_, pwf_test_) ==
    IF test_in_linear(pwf_test_, pb_)
    THEN IF RIsZero(drawdown(pr_, pwf_test_))
         THEN Raised("linear", "none", "pr - pwf_test")
         ELSE Returned(NoRat, RDiv(FromInt(q_test_), drawdown(pr_, pwf_test_)),
                       "linear", "none")
    ELSE IF pb_ = 0
         THEN Raised("composite", "none", "pb")
         ELSE IF RIsZero(composite_denominator(pr_, pb_, pwf_test_))
              THEN Raised("composite", "none", "denominator")
              ELSE Returned(NoRat,
                            RDiv(FromInt(q_test_),
                                 composite_denominator(pr_, pb_, pwf_test_)),
                            "composite", "none")

\* ----------------------------------------------------- calculate_q, step 2
\* Mutant of eval_in_linear: > for >=.
eval_in_linear_strict(p_val, pb_) == RLt(FromInt(pb_), p_val)

\* p_val >= pb
eval_in_linear(p_val, pb_) == RLe(FromInt(pb_), p_val)

\* j * (pr - p_val)
q_linear(j, pr_, p_val) == RMul(j, RSub(FromInt(pr_), p_val))

\* Mutant of q_at_pb: the full drawdown j * pr.
q_at_pb_full_drawdown(j, pr_, pb_) == RMul(j, FromInt(pr_))

\* j * (pr - pb)
q_at_pb(j, pr_, pb_) == RMul(j, FromInt(pr_ - pb_))

\* Mutant of q_vogel: the linear contribution down to pb left out.
q_vogel_without_q_at_pb(j, pr_, pb_, p_val) ==
    RMul(RDiv(RMul(j, FromInt(pb_)), c1_8), vogel_term(p_val, pb_))

\* q_at_pb + (j * pb / 1.8) * vogel_term, for pb # 0
q_vogel(j, pr_, pb_, p_val) ==
    RAdd(q_at_pb(j, pr_, pb_),
         RMul(RDiv(RMul(j, FromInt(pb_)), c1_8), vogel_term(p_val, pb_)))

calculate_q(p_val, pr_, pb_, q_test_, pwf_test_) ==
    LET s == solve_j(pr_, pb_, q_test_, pwf_test_)
    IN  IF IsRaise(s) THEN s
        ELSE IF eval_in_linear(p_val, pb_)
             THEN Returned(q_linear(s.j, pr_, p_val), s.j, s.jb, "linear")
             ELSE IF pb_ = 0
                  THEN Raised(s.jb, "vogel", "pb")
                  ELSE Returned(q_vogel(s.j, pr_, pb_, p_val), s.j, s.jb, "vogel")

\* ------------------------------------------------------------ the script
\* np.linspace(0, pr, 100)[k], k = 0 .. 99
pwf_range(k, pr_) == Rat(k * pr_, NumSamples - 1)

\* Mutant of j_disp_of: the linear relation used whatever the regime.
j_disp_of_linear_only(pr_, pb_, q_test_, pwf_test_) ==
    IF pr_ - pwf_test_ = 0
    THEN Raised("linear", "none", "pr - pwf_test")
    ELSE Returned(NoRat, Rat(q_test_, pr_ - pwf_test_), "linear", "none")

\* Lines 67-68: the index recomputed for the metric.
j_disp_of(pr_, pb_, q_test_, pwf_test_) ==
    IF pwf_test_ >= pb_
    THEN IF pr_ - pwf_test_ = 0
         THEN Raised("linear", "none", "pr - pwf_test")
         ELSE Returned(NoRat, Rat(q_test_, pr_ - pwf_test_), "linear", "none")
    ELSE IF pb_ = 0
         THEN Raised("composite", "none", "pb")
         ELSE LET w == Rat(pwf_test_, pb_)
                  d == RAdd(FromInt(pr_ - pb_),
                            RMul(RDiv(FromInt(pb_), c1_8),
                                 RSub(RSub(One, RMul(c0_2, w)),
                                      RMul(c0_8, RMul(w, w)))))
              IN  IF RIsZero(d)
                  THEN Raised("composite", "none", "denominator")
                  ELSE Returned(NoRat, RDiv(FromInt(q_test_), d), "composite", "none")

\* The values the five number_input widgets can return.
SidebarInputs ==
    {i \in [pr : PrMin..MaxPr, pb : PMin..(MaxPr + PbExcess), pwf_test : PMin..MaxPr,
            q_test : QMin..MaxQ, pwf_target : PMin..MaxPr] :
        i.pwf_test <= i.pr /\ i.pwf_target <= i.pr}

\* Lines 10-16 have run; nothing has been computed yet.
Sidebar(i) ==
    /\ pr' = i.pr
    /\ pb' = i.pb
    /\ pwf_test' = i.pwf_test
    /\ q_test' = i.q_test
    /\ pwf_target' = i.pwf_target
    /\ q_curve' = <<>>
    /\ q_target' = None
    /\ j_disp' = None
    /\ exc' = "none"
    /\ pc' = "curve"

Init ==
    \E i \in SidebarInputs :
        /\ pr = i.pr
        /\ pb = i.pb
        /\ pwf_test = i.pwf_test
        /\ q_test = i.q_test
        /\ pwf_target = i.pwf_target
        /\ q_curve = <<>>
        /\ q_target = None
        /\ j_disp = None
        /\ exc = "none"
        /\ pc = "curve"

\* Line 41: one element of the list comprehension.
CurveStep ==
    /\ pc = "curve"
    /\ Len(q_curve) < NumSamples
    /\ LET o == calculate_q(pwf_range(Len(q_curve), pr), pr, pb, q_test, pwf_test)
       IN  IF IsRaise(o)
           THEN /\ exc' = o.kind
                /\ pc' = "raised"
                /\ UNCHANGED q_curve
           ELSE /\ q_curve' = Append(q_curve, o)
                /\ pc' = IF Len(q_curve) + 1 = NumSamples THEN "target" ELSE "curve"
                /\ UNCHANGED exc
    /\ UNCHANGED <<pr, pb, pwf_test, q_test, pwf_target, q_target, j_disp>>

\* Line 42.
Target ==
    /\ pc = "target"
    /\ LET o == calculate_q(FromInt(pwf_target), pr, pb, q_test, pwf_test)
       IN  IF IsRaise(o)
           THEN /\ exc' = o.kind
                /\ pc' = "raised"
                /\ UNCHANGED q_target
           ELSE /\ q_target' = o
                /\ pc' = "results"
                /\ UNCHANGED exc
    /\ UNCHANGED <<pr, pb, pwf_test, q_test, pwf_target, q_curve, j_disp>>

\* Lines 62-69.
Results ==
    /\ pc = "results"
    /\ LET o == j_disp_of(pr, pb, q_test, pwf_test)
       IN  IF IsRaise(o)
           THEN /\ exc' = o.kind
                /\ pc' = "raised"
                /\ UNCHANGED j_disp
           ELSE /\ j_disp' = o
                /\ pc' = "done"
                /\ UNCHANGED exc
    /\ UNCHANGED <<pr, pb, pwf_test, q_test, pwf_target, q_curve, q_target>>

\* A widget changed: Streamlit runs the script again from the top.
Rerun ==
    /\ pc \in {"done", "raised"}
    /\ \E i \in SidebarInputs : Sidebar(i)

Next == CurveStep \/ Target \/ Results \/ Rerun

Spec == Init /\ [][Next]_vars

\* ------------------------------------------------------------ properties
Zero == <<0, 1>>

\* The inputs satisfy the data model: pr > 0, 0 <= pb <= pr, 0 <= pwf_test <= pr,
\* q_test > 0, 0 <= pwf_target <= pr.  The widgets enforce all but pb <= pr.
ValidInputs ==
    /\ pr > 0
    /\ 0 <= pb /\ pb <= pr
    /\ 0 <= pwf_test /\ pwf_test <= pr
    /\ q_test > 0
    /\ 0 <= pwf_target /\ pwf_target <= pr

TargetComputed == pc \in {"results", "done"}

CurveComplete == pc \in {"target", "results", "done"}

\* C1: round trip.  For valid inputs with pwf_test < pr the evaluation returns
\* (raises nothing), and the rate evaluated at p = pwf_test is exactly q_test,
\* in the linear branch (pwf_test >= pb) and in the composite branch
\* (pwf_test < pb) alike.
RoundTrip ==
    (ValidInputs /\ pwf_test < pr) =>
        /\ pc # "raised"
        /\ (TargetComputed /\ pwf_target = pwf_test) =>
               /\ IsNum(q_target)
               /\ q_target.val = FromInt(q_test)

\* C1 witness: a target rate evaluated at the test pressure, below the bubble
\* point, reproduces the test rate through the composite branch.
RoundTripWitness ==
    /\ pc = "done"
    /\ ValidInputs
    /\ pwf_test < pb
    /\ pwf_target = pwf_test
    /\ q_target.jb = "composite"
    /\ q_target.qb = "vogel"
    /\ q_target.val = FromInt(q_test)

\* C2: zero test drawdown.  When pwf_test = pr and 0 <= pb <= pr, calculate_q
\* raises at every sampled pressure and at the target pressure; the script
\* stops at its first evaluation with ZeroDivisionError and no rate, curve
\* sample or productivity index is ever produced.
DegenerateDrawdownRaises ==
    (ValidInputs /\ pwf_test = pr) =>
        /\ \A k \in 0..(NumSamples - 1) :
               IsRaise(calculate_q(pwf_range(k, pr), pr, pb, q_test, pwf_test))
        /\ IsRaise(calculate_q(FromInt(pwf_target), pr, pb, q_test, pwf_test))
        /\ pc \in {"curve", "raised"}
        /\ pc = "raised" => exc = "ZeroDivisionError"
        /\ q_curve = <<>>
        /\ q_target = None
        /\ j_disp = None

\* C2 witness: the script stopped on the exception with pwf_test = pr.
DegenerateDrawdownWitness ==
    /\ pc = "raised"
    /\ ValidInputs
    /\ pwf_test = pr
    /\ exc = "ZeroDivisionError"
    /\ q_curve = <<>>

\* C3: monotonicity.  For valid inputs with pwf_test < pr, the sampled rates
\* never increase as the pressure increases, across the bubble point too, and
\* the target rate is ordered against every sample the same way.
RateNonIncreasing ==
    (ValidInputs /\ pwf_test < pr) =>
        /\ Len(q_curve) >= 2 =>
               RLe(q_curve[Len(q_curve)].val, q_curve[Len(q_curve) - 1].val)
        /\ CurveComplete =>
               \A k \in 1..(Len(q_curve) - 1) : RLe(q_curve[k + 1].val, q_curve[k].val)
        /\ TargetComputed =>
               \A k \in 1..Len(q_curve) :
                   /\ RLe(pwf_range(k - 1, pr), FromInt(pwf_target)) =>
                          RLe(q_target.val, q_curve[k].val)
                   /\ RLe(FromInt(pwf_target), pwf_range(k - 1, pr)) =>
                          RLe(q_curve[k].val, q_target.val)

\* C3 witness: a complete curve whose consecutive samples straddle the bubble
\* point, the rate strictly falling from the Vogel side to the linear side.
RateNonIncreasingWitness ==
    /\ pc = "done"
    /\ ValidInputs
    /\ pwf_test < pb
    /\ pb < pr
    /\ Len(q_curve) = NumSamples
    /\ \E k \in 1..(NumSamples - 1) :
           /\ q_curve[k].qb = "vogel"
           /\ q_curve[k + 1].qb = "linear"
           /\ RLt(q_curve[k + 1].val, q_curve[k].val)

\* C4: continuity at the bubble point.  For valid inputs with pb > 0, the
\* rate the code returns at p = pb (its linear formula, j * (pr - pb)) equals
\* the Vogel-branch formula q_at_pb + (j*pb/1.8)*vogel_term evaluated at p = pb.
ContinuousAtBubblePoint ==
    (ValidInputs /\ pb > 0 /\ TargetComputed /\ pwf_target = pb) =>
        /\ q_target.qb = "linear"
        /\ q_target.val = q_linear(q_target.j, pr, FromInt(pb))
        /\ q_target.val = q_vogel(q_target.j, pr, pb, FromInt(pb))

\* C4 witness: the target pressure is a bubble point strictly inside (0, pr)
\* and the index came from the composite branch.
ContinuousAtBubblePointWitness ==
    /\ pc = "done"
    /\ ValidInputs
    /\ 0 < pb /\ pb < pr
    /\ pwf_target = pb
    /\ q_target.jb = "composite"
    /\ q_target.val = q_vogel(q_target.j, pr, pb, FromInt(pb))
    /\ RLt(Zero, q_target.val)

\* C5 as stated: vogel_term evaluates to 1 at p = pb, for every pb > 0.
VogelTermIsOneAtPb ==
    pb > 0 => vogel_term(FromInt(pb), pb) = One

\* C5 as amended: vogel_term evaluates to 0 at p = pb, for every pb > 0; the
\* value 1 is taken at p = 0.
VogelTermIsZeroAtPb ==
    pb > 0 =>
        /\ vogel_term(FromInt(pb), pb) = Zero
        /\ vogel_term(Zero, pb) = One

\* C5 witness: the code used vogel_term with this bubble point (composite
\* index, Vogel-branch target rate), and the term vanishes at p = pb.
VogelTermIsZeroAtPbWitness ==
    /\ pc = "done"
    /\ pb > 0
    /\ q_target.jb = "composite"
    /\ q_target.qb = "vogel"
    /\ vogel_term(FromInt(pb), pb) = Zero

\* C6 as stated: with pb = pr, every in-range pwf_test has its index
\* computed by the linear relation; the composite branch is never taken.
SaturatedAlwaysLinear ==
    (ValidInputs /\ pb = pr) =>
        /\ \A k \in 1..Len(q_curve) : q_curve[k].jb = "linear"
        /\ IsNum(q_target) => q_target.jb = "linear"
        /\ IsNum(j_disp) => j_disp.jb = "linear"

\* C6 as amended: with pb = pr, the linear relation is selected only for
\* pwf_test = pr (where it divides by zero); for every in-range pwf_test < pr
\* the composite branch computes the index, in calculate_q and for display.
SaturatedCompositeBelowPr ==
    (ValidInputs /\ pb = pr) =>
        /\ (solve_j(pr, pb, q_test, pwf_test).jb = "linear") <=> (pwf_test = pr)
        /\ (solve_j(pr, pb, q_test, pwf_test).jb = "composite") <=> (pwf_test < pr)
        /\ \A k \in 1..Len(q_curve) : q_curve[k].jb = "composite"
        /\ IsNum(q_target) => q_target.jb = "composite"
        /\ IsNum(j_disp) => j_disp.jb = "composite"

\* C6 witness: a finished run with pb = pr and a test point below pr.
SaturatedCompositeBelowPrWitness ==
    /\ pc = "done"
    /\ ValidInputs
    /\ pb = pr
    /\ pwf_test < pr
    /\ q_target.jb = "composite"
    /\ j_disp.jb = "composite"

\* Every branch recorded in the computed values is the linear one.
OnlyLinearBranches ==
    /\ solve_j(pr, pb, q_test, pwf_test).jb = "linear"
    /\ \A k \in 1..Len(q_curve) : q_curve[k].jb = "linear" /\ q_curve[k].qb = "linear"
    /\ IsNum(q_target) => (q_target.jb = "linear" /\ q_target.qb = "linear")
    /\ IsNum(j_disp) => j_disp.jb = "linear"

\* C7 as stated: with pb = 0, for any pwf_test in [0, pr], only the linear
\* branch is taken in both steps and no division by zero occurs.
UndersaturatedNoDivisionByZero ==
    (ValidInputs /\ pb = 0) =>
        /\ OnlyLinearBranches
        /\ pc # "raised"

\* C7 as amended: with pb = 0, for any pwf_test in [0, pr] and any evaluated
\* pressure, only the linear branch is taken in both steps and nothing is
\* divided by pb; the one division by zero is the drawdown pr - pwf_test of
\* the case pwf_test = pr, and for pwf_test < pr nothing is raised.
UndersaturatedNoDivisionByPb ==
    (ValidInputs /\ pb = 0) =>
        /\ OnlyLinearBranches
        /\ \A k \in 0..(NumSamples - 1) :
               calculate_q(pwf_range(k, pr), pr, pb, q_test, pwf_test).div
                   \in {"none", "pr - pwf_test"}
        /\ calculate_q(FromInt(pwf_target), pr, pb, q_test, pwf_test).div
               \in {"none", "pr - pwf_test"}
        /\ pc = "raised" => pwf_test = pr

\* C7 witness: a finished run with pb = 0, every sample and the target taken
\* through the linear branch.
UndersaturatedWitness ==
    /\ pc = "done"
    /\ pb = 0
    /\ Len(q_curve) = NumSamples
    /\ q_curve[1].qb = "linear"
    /\ q_target.jb = "linear"
    /\ q_target.qb = "linear"
    /\ exc = "none"

\* C8: positivity.  For pr >= pb >= 0, 0 <= pwf_test < pr and q_test > 0 the
\* solved index is a number and strictly positive in both branches, in every
\* place the script computes it, and the composite denominator
\* (pr - pb) + (pb/1.8)*vogel_term is strictly positive when pwf_test < pb.
ProductivityIndexPositive ==
    (ValidInputs /\ pwf_test < pr) =>
        /\ IsNum(solve_j(pr, pb, q_test, pwf_test))
        /\ RLt(Zero, solve_j(pr, pb, q_test, pwf_test).j)
        /\ pwf_test < pb => RLt(Zero, composite_denominator(pr, pb, pwf_test))
        /\ Len(q_curve) >= 1 => RLt(Zero, q_curve[Len(q_curve)].j)
        /\ IsNum(q_target) => RLt(Zero, q_target.j)
        /\ IsNum(j_disp) => RLt(Zero, j_disp.j)

\* C8 witness: a finished run whose index came from the composite branch.
ProductivityIndexPositiveWitness ==
    /\ pc = "done"
    /\ ValidInputs
    /\ pwf_test < pb
    /\ j_disp.jb = "composite"
    /\ RLt(Zero, j_disp.j)
    /\ RLt(Zero, q_target.j)

\* C9 as stated: out-of-range inputs (here pb > pr, the one range the
\* widgets do not enforce) yield an error outcome and never a numeric rate or
\* productivity index.
InvalidInputRangeSignalled ==
    pb > pr =>
        /\ q_curve = <<>>
        /\ ~IsNum(q_target)
        /\ ~IsNum(j_disp)

\* C10: the index computed for display equals the index calculate_q used
\* for every curve sample and for the target rate, from the same branch, and
\* once the target rate is computed the display computation raises nothing.
DisplayIndexAgrees ==
    /\ pc = "results" => IsNum(j_disp_of(pr, pb, q_test, pwf_test))
    /\ TargetComputed =>
           \A k \in 1..Len(q_curve) :
               q_curve[k].j = q_target.j /\ q_curve[k].jb = q_target.jb
    /\ pc = "done" =>
           /\ IsNum(j_disp)
           /\ j_disp.j = q_target.j
           /\ j_disp.jb = q_target.jb

\* C10 witness: a finished run in the composite regime with a displayed index
\* equal to the one behind the target rate.
DisplayIndexAgreesWitness ==
    /\ pc = "done"
    /\ pwf_test < pb
    /\ j_disp.jb = "composite"
    /\ q_target.jb = "composite"
    /\ j_disp.j = q_target.j
    /\ Len(q_curve) = NumSamples

====
